---------------------------- MODULE Spec2Model ----------------------------
(***************************************************************************)
(* Model of the gas price tracker's ingestion, buffering, backfill and     *)
(* range-query subsystem.                                                  *)
(*                                                                         *)
(* The repository holds several variants of the server.  Two are modelled  *)
(* here, and a behaviour is a run of one of them (variable `variant`):     *)
(*   "buffer" : src/server.js 753-1055 with the BlockBuffer of             *)
(*              src/buffer.js 1-96 (addBlock, periodic flush, 1h merge);   *)
(*   "direct" : src/server.js 1-351 (throttled direct writes, gap          *)
(*              detection, chunked backfill, metrics, LIMIT + sampling).   *)
(*                                                                         *)
(* The gas_prices table is a set of rows; the PRIMARY KEY on blockNumber   *)
(* lives in the three write statements (INSERT OR REPLACE, INSERT OR       *)
(* IGNORE, UPDATE .. WHERE), not in the type of the table.  Of the eight   *)
(* columns the rows keep blockNumber, timestamp, confidence99 and          *)
(* seiGasPrice: baseFeePerGas and confidence50/70/90 are written by the    *)
(* same statements from the same record as confidence99.                   *)
(*                                                                         *)
(* Time is a discrete clock `now`; ISO-8601 timestamps are compared by the *)
(* database as strings, which for toISOString() output is the order of the *)
(* instants, so a timestamp is the clock value it was taken at.            *)
(***************************************************************************)
EXTENDS Integers, Sequences, FiniteSets, TLC

\* ------------------------------------------------------------------ bounds
MaxTime == 3
MaxHeight == 2
\* Caps of the metrics counters (the counters themselves are unbounded).
MaxMissed == 2
MaxErrors == 1
\* getRecentBlocks(15000), bufferTimeWindow: 30000 and the '1h' range, scaled
\* to clock units with their order kept (recent < buffer window < hour).
RECENT_WINDOW == 1
bufferTimeWindow == 2
Hour == 3
\* MAX_CONCURRENT_BACKFILL (50) and LIMIT 10000, scaled.
MAX_CONCURRENT_BACKFILL == 1
QUERY_LIMIT == 1
\* DB_WRITE_INTERVAL (10000 ms) and the 7 day retention, in clock units of the
\* direct-write variant.
DB_WRITE_INTERVAL == 1
RETENTION == 1
\* The capped variant: the backfill limit (10000 heights, scaled) and the run's
\* height and missedBlocks caps, wide enough for a gap beyond the limit.
BackfillLimit == 3
MaxHeightCapped == 4
MaxMissedCapped == 3
\* The clock's cap in the run that keeps the cleanup timer's period: past the
\* timer's second firing.
MaxTimeTimer == 5
\* The most rows the sampled input holds: past two strides of 6, past one of 12.
MaxSampleRows == 13

\* SQL NULL and a missing (undefined) property; `x || null` also maps 0 here.
Null == 0

PredPrices == {120}
ActPrices == {118}
Variants == {"buffer", "direct"}
\* The variants that write each poll straight to the table.
DirectWrite == {"direct", "capped"}
PollIds == {1, 2}

VARIABLES
  variant,            \* which server variant this run is
  now,                \* Date.now()
  chain,              \* the latest block height the feeds report
  store,              \* table gas_prices: a set of rows
  resp,               \* the response of the /api/chart-data request that just ran
  last,               \* what just ran (observation only)
  buffer,             \* BlockBuffer.buffer   : Map blockNumber -> entry
  writeBuffer,        \* BlockBuffer.writeBuffer : Map blockNumber -> blockData
  lastWrite,          \* BlockBuffer.lastWrite
  flushed,            \* outcome of the flush timer since the last clock tick
  metrics,            \* metrics object of the direct-write server
  lastProcessedBlock, \* module variable lastProcessedBlock
  lastDbWrite,        \* module variable lastDbWrite
  polls,              \* pollSeiGasPrice invocations in flight
  lastReported,       \* last height the authoritative feed reported (history)
  expectedMissed,     \* heights skipped between consecutive reports (history)
  running,            \* the process has not exited
  fetch               \* one call of fetchWithRetry: its locals and what it did

envVars == <<variant, now, chain, running>>
bufVars == <<buffer, writeBuffer, lastWrite, flushed>>
dirVars == <<metrics, lastProcessedBlock, lastDbWrite, polls, lastReported, expectedMissed>>
vars == <<variant, now, chain, store, resp, last, buffer, writeBuffer,
          lastWrite, flushed, metrics, lastProcessedBlock, lastDbWrite,
          polls, lastReported, expectedMissed, running, fetch>>

\* ------------------------------------------------------------------ chain
\* The chain produces two blocks per clock unit (heights 1 and 2 at time 1,
\* 3 and 4 at time 2, ..), and the feeds' nodes report a height they have,
\* which may lag behind the chain.
blockTime(h) == (h + 1) \div 2
headTime == blockTime(chain)
Heights == 1..MaxHeight

\* ------------------------------------------------------------- the table
Row(h, ts, c99, sei) ==
  [blockNumber |-> h, timestamp |-> ts, confidence99 |-> c99, seiGasPrice |-> sei]

HasRow(tbl, h) == \E r \in tbl : r.blockNumber = h
RowsOf(tbl, h) == {r \in tbl : r.blockNumber = h}

\* INSERT with no conflict clause on a table without the key: the row is added.
InsertPlain(tbl, row) == tbl \cup {row}

\* INSERT OR REPLACE: the row with the same blockNumber is deleted first.
InsertOrReplace(tbl, row) ==
  {r \in tbl : r.blockNumber # row.blockNumber} \cup {row}

\* An insert that overwrites the row of the same blockNumber.
InsertOverwriting(tbl, row) ==
  {r \in tbl : r.blockNumber # row.blockNumber} \cup {row}

\* INSERT OR IGNORE: nothing happens when the blockNumber is already there.
InsertOrIgnore(tbl, row) ==
  IF HasRow(tbl, row.blockNumber) THEN tbl ELSE tbl \cup {row}

\* An upsert: the UPDATE, and an INSERT of the row when no row matches.
UpsertSeiGasPrice(tbl, h, price) ==
  IF \E r \in tbl : r.blockNumber = h
    THEN {IF r.blockNumber = h THEN [r EXCEPT !.seiGasPrice = price] ELSE r : r \in tbl}
    ELSE tbl \cup {[blockNumber |-> h, timestamp |-> 1, confidence99 |-> 0,
                    seiGasPrice |-> price]}

\* UPDATE gas_prices SET seiGasPrice = ? WHERE blockNumber = ?
UpdateSeiGasPrice(tbl, h, price) ==
  {IF r.blockNumber = h THEN [r EXCEPT !.seiGasPrice = price] ELSE r : r \in tbl}

\* ORDER BY blockNumber ASC
RECURSIVE OrderByBlockNumber(_)
OrderByBlockNumber(S) ==
  IF S = {} THEN <<>>
  ELSE LET r == CHOOSE x \in S : \A y \in S : x.blockNumber <= y.blockNumber
       IN <<r>> \o OrderByBlockNumber(S \ {r})

\* ------------------------------------------------------------ responses
\* body: what the JSON object holds, the two series or only an error message
\* (the series fields are then absent and kept empty here).  metrics: <<m>>
\* when the object has the property metrics, <<>> when it has not.
NoResp == [status |-> 0, range |-> "", body |-> "none",
           predictedData |-> <<>>, seiGasPriceData |-> <<>>, metrics |-> <<>>]

PredictedPoint(r) ==
  [blockNumber |-> r.blockNumber, timestamp |-> r.timestamp, confidence99 |-> r.confidence99]
\* The actual series carries its value under the key confidence99 too.
SeiPoint(r) ==
  [blockNumber |-> r.blockNumber, timestamp |-> r.timestamp, confidence99 |-> r.seiGasPrice]

Json(range, rows) ==
  [status |-> 200, range |-> range, body |-> "series",
   predictedData |-> [i \in 1..Len(rows) |-> PredictedPoint(rows[i])],
   seiGasPriceData |-> [i \in 1..Len(rows) |-> SeiPoint(rows[i])],
   metrics |-> <<>>]

ClientError(range) ==
  [status |-> 400, range |-> range, body |-> "error",
   predictedData |-> <<>>, seiGasPriceData |-> <<>>, metrics |-> <<>>]

\* The catch block of the buffer variant's handler: { error: .. }.
InternalErrorBuf(range) == [ClientError(range) EXCEPT !.status = 500]

\* The catch block of the direct-write handler: two empty series.
InternalErrorDirect(range) ==
  [status |-> 500, range |-> range, body |-> "series",
   predictedData |-> <<>>, seiGasPriceData |-> <<>>, metrics |-> <<metrics>>]

ValidRanges == {"1h", "6h"}
Ranges == ValidRanges \cup {"2w"}

\* timeRanges[range]; Null (undefined) for a key the object does not have.
timeRanges(range) ==
  CASE range = "1h" -> Hour
    [] range = "6h" -> 6 * Hour
    [] range = "12h" -> 12 * Hour
    [] range = "24h" -> 24 * Hour
    [] range = "72h" -> 72 * Hour
    [] range = "7d" -> 7 * 24 * Hour
    [] OTHER -> Null

\* What just ran, for the statements about an operation's result.
NoOp == [op |-> "none", blockNumber |-> 0, from |-> 0, looked |-> {}, found |-> {},
         predicted |-> Null, actual |-> Null]
Ingested(name, h, p, a) == [NoOp EXCEPT !.op = name, !.blockNumber = h,
                                        !.predicted = p, !.actual = a]

\* ------------------------------------------------------------ BlockBuffer
\* A blockData object as a poll builds it; a property the poll does not set is
\* undefined (Null).
BlockData(h, ts, c99, sei) == Row(h, ts, c99, sei)

\* The entry addBlock puts into buffer.
BufferEntry(blockData) ==
  [blockNumber |-> blockData.blockNumber,
   timestamp |-> IF blockData.timestamp = Null THEN now ELSE blockData.timestamp,
   confidence99 |-> blockData.confidence99,
   seiGasPrice |-> blockData.seiGasPrice,
   addedAt |-> now]

\* Map.prototype.set: the value under the key is replaced as a whole.
MapSet(m, k, v) == [x \in DOMAIN m \cup {k} |-> IF x = k THEN v ELSE m[x]]

addBlock(blockData) ==
  /\ buffer' = MapSet(buffer, blockData.blockNumber, BufferEntry(blockData))
  /\ writeBuffer' = MapSet(writeBuffer, blockData.blockNumber, blockData)

BufferValues == {buffer[h] : h \in DOMAIN buffer}

\* The filter with the comparison turned round.
IsRecentInverted(block, cutoffTime) == block.addedAt < cutoffTime

\* The filter of getRecentBlocks.
IsRecent(block, cutoffTime) == block.addedAt >= cutoffTime

\* The buffer's values sorted, with no filter on addedAt.
getAllBlocks(timeWindow) == OrderByBlockNumber(BufferValues)

\* getRecentBlocks(timeWindow): filter on addedAt, then sort by blockNumber.
getRecentBlocks(timeWindow) ==
  OrderByBlockNumber({b \in BufferValues : IsRecent(b, now - timeWindow)})

\* pollPredictedGasPrice (buffer variant): both responses arrived and are
\* complete; the record carries the chain's block time.
PollPredictedBuf ==
  /\ variant = "buffer" /\ running
  /\ \E p \in PredPrices :
       /\ addBlock(BlockData(chain, headTime, p, Null))
       /\ last' = Ingested("predicted", chain, p, Null)
  /\ resp' = NoResp
  /\ UNCHANGED <<envVars, fetch, store, lastWrite, flushed, dirVars>>

\* pollSeiGasPrice (buffer variant): the record carries the local time.
PollSeiBuf ==
  /\ variant = "buffer" /\ running
  /\ \E a \in ActPrices :
       /\ addBlock(BlockData(chain, now, Null, a))
       /\ last' = IF last.op = "predicted" /\ last.blockNumber = chain
                    THEN Ingested("both", chain, last.predicted, a)
                    ELSE Ingested("actual", chain, Null, a)
  /\ resp' = NoResp
  /\ UNCHANGED <<envVars, fetch, store, lastWrite, flushed, dirVars>>

\* A poll whose request failed after its retries (catch: console.error), or
\* whose response lacks the height or the price list (console.warn; return):
\* logged, nothing else.
PollSkippedBuf ==
  /\ variant = "buffer" /\ running
  /\ \E cause \in {"pollFailed", "pollIncomplete"} : last' = [NoOp EXCEPT !.op = cause]
  /\ resp' = NoResp
  /\ UNCHANGED <<envVars, fetch, store, bufVars, dirVars>>

\* A loop that also deletes the entries added exactly at the cutoff.
evictInclusive(buf, cutoffTime) ==
  [h \in {k \in DOMAIN buf : ~(buf[k].addedAt <= cutoffTime)} |-> buf[h]]

\* The loop of cleanBuffer: delete the entries with addedAt < cutoffTime.
evict(buf, cutoffTime) ==
  [h \in {k \in DOMAIN buf : ~(buf[k].addedAt < cutoffTime)} |-> buf[h]]

\* cleanBuffer
CleanBuffer ==
  /\ variant = "buffer" /\ running
  /\ buffer' = evict(buffer, now - bufferTimeWindow)
  /\ last' = NoOp
  /\ resp' = NoResp
  /\ UNCHANGED <<envVars, fetch, store, writeBuffer, lastWrite, flushed, dirVars>>

\* The values batchInsert.run binds for one staged block.
BatchRow(block) ==
  Row(block.blockNumber, block.timestamp,
      IF block.confidence99 = 0 THEN Null ELSE block.confidence99,
      IF block.seiGasPrice = 0 THEN Null ELSE block.seiGasPrice)

batchInsert(tbl, block) == InsertOrReplace(tbl, BatchRow(block))

\* A transaction that writes nothing.
insertNone(tbl, blocks) == tbl

\* insertMany: the transaction over Array.from(writeBuffer.values()).
RECURSIVE insertMany(_, _)
insertMany(tbl, blocks) ==
  IF blocks = {} THEN tbl
  ELSE LET b == CHOOSE x \in blocks : TRUE
       IN insertMany(batchInsert(tbl, b), blocks \ {b})

WriteBufferValues == {writeBuffer[h] : h \in DOMAIN writeBuffer}

\* The statements that ran before the throw stay in the table.
NoRollback(before, partial) == partial

\* db.transaction: when the function throws, what it wrote is rolled back.
Rollback(before, partial) == before

\* A catch block that clears the staged set as the try block does.
FlushCatchClears(staged) == <<>>

\* What the catch block of flushToDatabase leaves staged: it only logs.
FlushCatch(staged) == staged

\* flushToDatabase.  It has no await, so it runs to completion in one turn.
\* The transaction either commits or throws (storage unavailable, a value the
\* driver cannot bind) after some of its statements (done) and is rolled back.
FlushToDatabase ==
  /\ variant = "buffer" /\ running
  /\ IF writeBuffer = <<>>
       THEN /\ flushed' = "empty"
            /\ UNCHANGED <<store, writeBuffer, lastWrite>>
       ELSE \/ /\ store' = insertMany(store, WriteBufferValues)
               /\ writeBuffer' = <<>>
               /\ lastWrite' = now
               /\ flushed' = "ok"
            \/ /\ \E done \in SUBSET WriteBufferValues :
                    /\ done # WriteBufferValues
                    /\ store' = Rollback(store, insertMany(store, done))
               /\ writeBuffer' = FlushCatch(writeBuffer)
               /\ flushed' = "failed"
               /\ UNCHANGED lastWrite
  /\ last' = NoOp
  /\ resp' = NoResp
  /\ UNCHANGED <<envVars, fetch, buffer, dirVars>>

\* combinedData = [...dbData, ...recentBlocks]
Merge1h(dbData, recentBlocks) == dbData \o recentBlocks

\* GET /api/chart-data, buffer variant, range 1h.
ChartData1h ==
  LET recentBlocks == getRecentBlocks(RECENT_WINDOW)
      timeFilter == now - timeRanges("1h")
      upper == IF recentBlocks # <<>> THEN recentBlocks[1].timestamp ELSE now
      dbData == OrderByBlockNumber(
                  {r \in store : r.timestamp >= timeFilter /\ r.timestamp < upper})
  IN Json("1h", Merge1h(dbData, recentBlocks))

\* The other ranges read the table alone.
ChartDataLong(range) ==
  LET timeFilter == now - timeRanges(range)
  IN Json(range, OrderByBlockNumber({r \in store : r.timestamp >= timeFilter}))

ChartDataBufResponse(range) ==
  IF timeRanges(range) = Null THEN ClientError(range)
  ELSE IF range = "1h" THEN ChartData1h
  ELSE ChartDataLong(range)

\* The read of the table may throw (storage unavailable); the range is
\* checked before it.  The trail of what was just ingested is kept for the
\* 1h answer that follows it.
ChartDataBuf ==
  /\ variant = "buffer" /\ running
  /\ \E range \in Ranges :
       \/ /\ resp' = ChartDataBufResponse(range)
          /\ last' = IF range = "1h" THEN last ELSE NoOp
       \/ /\ timeRanges(range) # Null
          /\ resp' = InternalErrorBuf(range)
          /\ last' = NoOp
  /\ UNCHANGED <<envVars, fetch, store, bufVars, dirVars>>

\* The signal handlers (SIGTERM, SIGINT, uncaughtException, server error):
\* cleanup() clears the two poll timers and closes the database handle, then
\* process.exit ends the process in the same turn.  The BlockBuffer and what
\* it held in memory are gone with the process; the table stays on disk.
Shutdown ==
  /\ variant = "buffer" /\ running
  /\ running' = FALSE
  /\ buffer' = <<>>
  /\ writeBuffer' = <<>>
  /\ last' = [NoOp EXCEPT !.op = "shutdown"]
  /\ resp' = NoResp
  /\ UNCHANGED <<variant, now, chain, fetch, store, lastWrite, flushed, dirVars>>

\* ------------------------------------------------- direct-write variant
IdlePoll == [pc |-> "idle", currentBlock |-> 0, gasPrice |-> Null, fromBlock |-> 0,
             queue |-> <<>>, inflight |-> {}, looked |-> {}, found |-> {}]

Max(a, b) == IF a > b THEN a ELSE b

\* updateMetrics without the guard on the gap.
updateMetricsUnguarded(m, lpb, blockHeight, value) ==
  [m EXCEPT !.missedBlocks = @ + (blockHeight - lpb - 1),
            !.nullValues = IF value = Null THEN @ + 1 ELSE @,
            !.lastProcessedBlock = blockHeight]

\* updateMetrics(blockHeight, value).  The gap is measured against the module
\* variable lastProcessedBlock (lpb), which only pollSeiGasPrice assigns;
\* lastSync is the time of the call and is never read.
updateMetrics(m, lpb, blockHeight, value) ==
  [m EXCEPT !.missedBlocks = IF blockHeight > lpb + 1
                               THEN @ + (blockHeight - lpb - 1) ELSE @,
            !.nullValues = IF value = Null THEN @ + 1 ELSE @,
            !.lastProcessedBlock = blockHeight]

CountersOk(m) ==
  /\ m.missedBlocks <= (IF variant = "capped" THEN MaxMissedCapped ELSE MaxMissed)
  /\ m.nullValues + m.apiErrors <= MaxErrors

\* The loop started one height late.
missingBlocksLate(fromBlock, toBlock) ==
  [k \in 1..Max(toBlock - fromBlock - 2, 0) |-> fromBlock + 1 + k]

\* The loop of backfillMissedBlocks: fromBlock + 1 .. toBlock - 1, ascending.
missingBlocks(fromBlock, toBlock) ==
  [k \in 1..Max(toBlock - fromBlock - 1, 0) |-> fromBlock + k]

\* The backfill that never clamps its range.
clampUnlimited(fromBlock, toBlock) == fromBlock

\* The safety check of the capped variant's backfillMissedBlocks: a range wider
\* than the limit starts at toBlock - limit.
clamp(fromBlock, toBlock) ==
  IF toBlock - fromBlock > BackfillLimit THEN toBlock - BackfillLimit ELSE fromBlock

\* backfillMissedBlocks up to its chunk loop, by variant.
backfillBlocks(fromBlock, toBlock) ==
  IF variant = "capped" THEN missingBlocks(clamp(fromBlock, toBlock), toBlock)
  ELSE missingBlocks(fromBlock, toBlock)

\* Every height issued at once, whatever the chunk size.
ChunkAll(blocks) == {blocks[k] : k \in 1..Len(blocks)}

\* missingBlocks.slice(i, i + chunkSize) and what is left after it.
Chunk(blocks) ==
  {blocks[k] : k \in 1..(IF Len(blocks) < MAX_CONCURRENT_BACKFILL
                           THEN Len(blocks) ELSE MAX_CONCURRENT_BACKFILL)}
\* The chunk loop given up after its first chunk.
AfterChunkStops(blocks) == <<>>

AfterChunk(blocks) ==
  IF Len(blocks) <= MAX_CONCURRENT_BACKFILL THEN <<>>
  ELSE SubSeq(blocks, MAX_CONCURRENT_BACKFILL + 1, Len(blocks))

\* The placeholder row of processBlockChunk.
Placeholder(h) == Row(h, blockTime(h), Null, Null)

\* The tail of pollSeiGasPrice after the backfill: throttled UPDATE, cache push
\* (the caches are never read), updateMetrics, lastProcessedBlock.
SeiFinish(i, tbl, m, p) ==
  /\ IF now - lastDbWrite >= DB_WRITE_INTERVAL
       THEN /\ store' = UpdateSeiGasPrice(tbl, p.currentBlock, p.gasPrice)
            /\ lastDbWrite' = now
       ELSE /\ store' = tbl
            /\ lastDbWrite' = lastDbWrite
  /\ metrics' = updateMetrics(m, lastProcessedBlock, p.currentBlock, p.gasPrice)
  /\ CountersOk(metrics')
  /\ lastProcessedBlock' = p.currentBlock
  /\ polls' = [polls EXCEPT ![i] = IdlePoll]
  /\ last' = [NoOp EXCEPT !.op = "seiDone", !.blockNumber = p.currentBlock,
                          !.from = p.fromBlock, !.looked = p.looked,
                          !.found = p.found]

\* A poll that starts only when no earlier invocation is still running.
FreeSlotWhenAllIdle(i) == i = 1 /\ \A j \in PollIds : polls[j].pc = "idle"

\* An invocation takes the first free slot.
FreeSlot(i) == polls[i].pc = "idle" /\ \A j \in PollIds : j < i => polls[j].pc # "idle"

\* pollSeiGasPrice up to its first await that can interleave: both responses
\* arrived.  With a gap it builds missingBlocks and issues the first chunk; the
\* chunk loop over an empty missingBlocks has no turn and the poll goes on.
SeiPollResponse(i) ==
  /\ variant \in DirectWrite
  /\ FreeSlot(i)
  /\ \E a \in ActPrices :
       LET p == [IdlePoll EXCEPT !.currentBlock = chain, !.gasPrice = a,
                                 !.fromBlock = lastProcessedBlock]
           blocks == backfillBlocks(lastProcessedBlock, chain)
       IN /\ lastReported' = chain
          /\ expectedMissed' = expectedMissed + Max(chain - lastReported - 1, 0)
          /\ IF chain > lastProcessedBlock + 1 /\ blocks # <<>>
               THEN /\ polls' = [polls EXCEPT ![i] =
                                   [p EXCEPT !.pc = "backfill",
                                             !.inflight = Chunk(blocks),
                                             !.queue = AfterChunk(blocks)]]
                    /\ last' = NoOp
                    /\ UNCHANGED <<store, metrics, lastProcessedBlock, lastDbWrite>>
               ELSE SeiFinish(i, store, metrics, p)
  /\ resp' = NoResp
  /\ UNCHANGED <<envVars, fetch, bufVars>>

\* pollSeiGasPrice whose request failed: the catch block.
SeiPollError(i) ==
  /\ variant \in DirectWrite
  /\ FreeSlot(i)
  /\ metrics' = [metrics EXCEPT !.apiErrors = @ + 1]
  /\ CountersOk(metrics')
  /\ last' = NoOp
  /\ resp' = NoResp
  /\ UNCHANGED <<envVars, fetch, store, bufVars, lastProcessedBlock, lastDbWrite,
                 polls, lastReported, expectedMissed>>

\* One lookup of processBlockChunk settles: a block (placeholder INSERT OR
\* IGNORE), no block (nothing), or an error (apiErrors++).  When it was the
\* last of its chunk, Promise.all resolves and the caller goes on in the same
\* turn: the next chunk is issued, or the poll finishes.
BackfillLookup(i, h, outcome) ==
  /\ variant \in DirectWrite
  /\ polls[i].pc = "backfill"
  /\ h \in polls[i].inflight
  /\ LET tbl == IF outcome = "block" THEN InsertOrIgnore(store, Placeholder(h)) ELSE store
         m == IF outcome = "error" THEN [metrics EXCEPT !.apiErrors = @ + 1] ELSE metrics
         p == [polls[i] EXCEPT !.inflight = @ \ {h},
                               !.looked = @ \cup {h},
                               !.found = IF outcome = "block" THEN @ \cup {h} ELSE @]
     IN IF p.inflight # {} \/ p.queue # <<>>
          THEN /\ store' = tbl
               /\ metrics' = m
               /\ CountersOk(m)
               /\ polls' = [polls EXCEPT ![i] =
                              IF p.inflight # {} THEN p
                              ELSE [p EXCEPT !.inflight = Chunk(p.queue),
                                             !.queue = AfterChunk(p.queue)]]
               /\ last' = NoOp
               /\ UNCHANGED <<lastProcessedBlock, lastDbWrite>>
          ELSE SeiFinish(i, tbl, m, p)
  /\ resp' = NoResp
  /\ UNCHANGED <<envVars, fetch, bufVars, lastReported, expectedMissed>>

\* pollPredictedGasPrice (direct-write variant), complete responses.
PollPredictedDirect ==
  /\ variant \in DirectWrite
  /\ \E p \in PredPrices :
       /\ IF now - lastDbWrite >= DB_WRITE_INTERVAL
            THEN /\ store' = InsertOrIgnore(store, Row(chain, headTime, p, Null))
                 /\ lastDbWrite' = now
            ELSE UNCHANGED <<store, lastDbWrite>>
       /\ metrics' = updateMetrics(metrics, lastProcessedBlock, chain, p)
       /\ CountersOk(metrics')
  /\ last' = [NoOp EXCEPT !.op = "predicted", !.blockNumber = chain]
  /\ resp' = NoResp
  /\ UNCHANGED <<envVars, fetch, bufVars, lastProcessedBlock, polls, lastReported,
                 expectedMissed>>

\* pollPredictedGasPrice: request failed or no latest_block_height
\* (apiErrors++), or no blockPrices (nullValues++).
PollPredictedIncomplete ==
  /\ variant \in DirectWrite
  /\ \E field \in {"apiErrors", "nullValues"} :
       metrics' = [metrics EXCEPT ![field] = @ + 1]
  /\ CountersOk(metrics')
  /\ last' = NoOp
  /\ resp' = NoResp
  /\ UNCHANGED <<envVars, fetch, store, bufVars, lastProcessedBlock, lastDbWrite,
                 polls, lastReported, expectedMissed>>

\* A DELETE that also takes the rows at the cutoff.
DeleteOldInclusive(tbl, cutoffTime) == {r \in tbl : ~(r.timestamp <= cutoffTime)}

\* DELETE FROM gas_prices WHERE timestamp < ?
DeleteOld(tbl, cutoffTime) == {r \in tbl : ~(r.timestamp < cutoffTime)}

\* SELECT COUNT(*) .. WHERE timestamp < ?
CountOld(tbl, cutoffTime) == Cardinality({r \in tbl : r.timestamp < cutoffTime})

\* result.changes of the DELETE
Changes(before, after) == Cardinality(before) - Cardinality(after)

\* cleanupOldData: the DELETE runs when the count is positive, and VACUUM
\* (which changes no row) when the DELETE changed rows; the trail shows
\* whether VACUUM ran.
CleanupOldData ==
  /\ variant \in DirectWrite
  /\ LET cutoffTime == now - RETENTION
         after == IF CountOld(store, cutoffTime) > 0
                    THEN DeleteOld(store, cutoffTime) ELSE store
     IN /\ store' = after
        /\ last' = IF CountOld(store, cutoffTime) > 0 /\ Changes(store, after) > 0
                     THEN [NoOp EXCEPT !.op = "vacuum"] ELSE NoOp
  /\ resp' = NoResp
  /\ UNCHANGED <<envVars, fetch, bufVars, dirVars>>

\* sampleData of the direct-write variant: samplingRates[timeframe] || 1.
samplingRates(timeframe) ==
  CASE timeframe = "1h" -> 1
    [] timeframe = "6h" -> 6
    [] timeframe = "12h" -> 12
    [] timeframe = "24h" -> 24
    [] timeframe = "72h" -> 72
    [] timeframe = "7d" -> 168
    [] OTHER -> 1

\* A filter that keeps every rate-th element counted from one: rate, 2 * rate, ..
RECURSIVE FilterIndexFromOne(_, _, _)
FilterIndexFromOne(data, rate, k) ==
  IF k > Len(data) THEN <<>>
  ELSE (IF k % rate = 0 THEN <<data[k]>> ELSE <<>>) \o FilterIndexFromOne(data, rate, k + 1)

\* data.filter((_, index) => index % rate === 0), index = k - 1.
RECURSIVE FilterIndex(_, _, _)
FilterIndex(data, rate, k) ==
  IF k > Len(data) THEN <<>>
  ELSE (IF (k - 1) % rate = 0 THEN <<data[k]>> ELSE <<>>) \o FilterIndex(data, rate, k + 1)

sampleData(data, timeframe) == FilterIndex(data, samplingRates(timeframe), 1)

\* LIMIT n
Limit(rows, n) == IF Len(rows) <= n THEN rows ELSE SubSeq(rows, 1, n)

\* timeRanges[range] || timeRanges['24h']
WindowOrDefault(range) ==
  IF timeRanges(range) = Null THEN timeRanges("24h") ELSE timeRanges(range)

\* GET /api/chart-data, direct-write variant.
ChartDataDirectResponse(range) ==
  LET timeFilter == now - WindowOrDefault(range)
      rows == Limit(OrderByBlockNumber({r \in store : r.timestamp >= timeFilter}),
                    QUERY_LIMIT)
      all == [Json(range, rows) EXCEPT !.metrics = <<metrics>>]
  IN IF range # "1h"
       THEN [all EXCEPT !.predictedData = sampleData(@, range),
                        !.seiGasPriceData = sampleData(@, range)]
       ELSE all

ChartDataDirect ==
  /\ variant \in DirectWrite
  /\ \E range \in Ranges :
       \/ resp' = ChartDataDirectResponse(range)
       \/ resp' = InternalErrorDirect(range)
  /\ last' = NoOp
  /\ UNCHANGED <<envVars, fetch, store, bufVars, dirVars>>

\* The timeframes sampleData has a rate for, and one it has none for.
Timeframes == {"1h", "6h", "12h", "24h", "72h", "7d", "2w"}

\* The sampling step of the handler on its own: the two series built from the
\* height-ordered rows, sampled unless the range is 1h.
SampleSeries ==
  /\ resp = NoResp
  /\ \E range \in Timeframes :
       LET all == Json(range, OrderByBlockNumber(store))
       IN resp' = IF range # "1h"
                    THEN [all EXCEPT !.predictedData = sampleData(@, range),
                                     !.seiGasPriceData = sampleData(@, range)]
                    ELSE all
  /\ last' = NoOp
  /\ UNCHANGED <<envVars, fetch, store, bufVars, dirVars>>

\* --------------------------------------------------------- fetchWithRetry
\* The default of the parameter retries.
retries == 3
FetchErrors == {"ETIMEDOUT", "ECONNRESET", "E500"}
\* What the attempts of one call would meet: a response or an error each.
FetchPlans == [1..retries -> {"ok"} \cup FetchErrors]

NoFetch == [pc |-> "none", plan |-> <<>>, i |-> 0, attempts |-> 0, waits |-> <<>>,
            lastError |-> "", response |-> 0, thrown |-> ""]
FetchCall(plan) == [NoFetch EXCEPT !.pc = "try", !.plan = plan]

\* A delay that does not grow.
BackoffConstant(i) == 1000

\* 1000 * Math.pow(2, i)
Backoff(i) == 1000 * 2^i

\* One turn of the loop up to its await: the axios call settles.  A response
\* is returned; an error is kept in lastError, and after the last attempt the
\* loop is left and lastError thrown.
FetchAttempt ==
  /\ fetch.pc = "try"
  /\ fetch.i < retries
  /\ LET outcome == fetch.plan[fetch.i + 1]
         f == [fetch EXCEPT !.attempts = @ + 1]
     IN fetch' = IF outcome = "ok"
                   THEN [f EXCEPT !.pc = "returned", !.response = fetch.i + 1]
                 ELSE IF fetch.i = retries - 1
                   THEN [f EXCEPT !.pc = "thrown", !.lastError = outcome,
                                  !.thrown = outcome]
                 ELSE [f EXCEPT !.pc = "wait", !.lastError = outcome]
  /\ UNCHANGED <<envVars, store, resp, last, bufVars, dirVars>>

\* The setTimeout of the catch block fires and the loop goes on.
FetchBackoff ==
  /\ fetch.pc = "wait"
  /\ fetch' = [fetch EXCEPT !.pc = "try", !.i = @ + 1,
                            !.waits = Append(@, Backoff(fetch.i))]
  /\ UNCHANGED <<envVars, store, resp, last, bufVars, dirVars>>

\* ------------------------------------------------------------ environment
\* The feeds' nodes learn of the next block.
ChainAdvance ==
  /\ running
  /\ chain < (IF variant = "capped" THEN MaxHeightCapped ELSE MaxHeight)
  /\ blockTime(chain + 1) <= now
  /\ chain' = chain + 1
  /\ last' = NoOp
  /\ resp' = NoResp
  /\ UNCHANGED <<variant, now, running, fetch, store, bufVars, dirVars>>

\* The clock advances.  In the buffer variant the flush timer (writeInterval,
\* 5 s) is shorter than a clock unit, so it has fired since the last tick.
Tick ==
  /\ running
  /\ now < MaxTime
  /\ variant = "buffer" => flushed # "due"
  /\ now' = now + 1
  /\ flushed' = "due"
  /\ last' = NoOp
  /\ resp' = NoResp
  /\ UNCHANGED <<variant, chain, running, fetch, store, buffer, writeBuffer, lastWrite,
                 dirVars>>

\* setInterval(cleanBuffer, bufferTimeWindow), set at construction (time 1).
TimerFires(t) == t > 1 /\ (t - 1) % bufferTimeWindow = 0

\* The clock advances with the cleanup timer kept: when the clock reaches a
\* firing time, cleanBuffer runs at that time.
TickTimer ==
  /\ variant = "buffer" /\ running
  /\ now < MaxTimeTimer
  /\ flushed # "due"
  /\ now' = now + 1
  /\ flushed' = "due"
  /\ buffer' = IF TimerFires(now + 1)
                 THEN evict(buffer, now + 1 - bufferTimeWindow) ELSE buffer
  /\ last' = NoOp
  /\ resp' = NoResp
  /\ UNCHANGED <<variant, chain, running, fetch, store, writeBuffer, lastWrite,
                 dirVars>>

\* The clock advances, in a run that keeps of the clock only the age of the last
\* throttled write, now - lastDbWrite: the origin moves with the clock, and the
\* age is capped at DB_WRITE_INTERVAL, beyond which the throttle tells no ages
\* apart.  The rows' timestamps are not read in such a run.
TickThrottle ==
  /\ variant \in DirectWrite /\ running
  /\ lastDbWrite' = Max(lastDbWrite - 1, now - DB_WRITE_INTERVAL)
  /\ last' = NoOp
  /\ resp' = NoResp
  /\ UNCHANGED <<envVars, fetch, store, bufVars, metrics, lastProcessedBlock, polls,
                 lastReported, expectedMissed>>

\* ---------------------------------------------------------- specification
Init ==
  /\ variant \in Variants
  /\ now = 1
  /\ chain = 1
  /\ store = {}
  /\ resp = NoResp
  /\ last = NoOp
  /\ buffer = <<>>
  /\ writeBuffer = <<>>
  /\ lastWrite = 1
  /\ flushed = "due"
  /\ metrics = [missedBlocks |-> 0, nullValues |-> 0, apiErrors |-> 0,
                lastProcessedBlock |-> 0]
  /\ lastProcessedBlock = 0
  /\ lastDbWrite = 1
  /\ polls = [i \in PollIds |-> IdlePoll]
  /\ lastReported = 0
  /\ expectedMissed = 0
  /\ running = TRUE
  /\ fetch = NoFetch

Next ==
  \/ ChainAdvance
  \/ Tick
  \/ PollPredictedBuf
  \/ PollSeiBuf
  \/ PollSkippedBuf
  \/ CleanBuffer
  \/ FlushToDatabase
  \/ ChartDataBuf
  \/ Shutdown
  \/ \E i \in PollIds : SeiPollResponse(i)
  \/ \E i \in PollIds : SeiPollError(i)
  \/ \E i \in PollIds, h \in Heights, outcome \in {"block", "none", "error"} :
       BackfillLookup(i, h, outcome)
  \/ PollPredictedDirect
  \/ PollPredictedIncomplete
  \/ CleanupOldData
  \/ ChartDataDirect

Spec == Init /\ [][Next]_vars

\* One call of fetchWithRetry (buffer variant), against every plan of outcomes.
InitFetch ==
  /\ variant = "buffer"
  /\ now = 1
  /\ chain = 1
  /\ store = {}
  /\ resp = NoResp
  /\ last = NoOp
  /\ buffer = <<>>
  /\ writeBuffer = <<>>
  /\ lastWrite = 1
  /\ flushed = "due"
  /\ metrics = [missedBlocks |-> 0, nullValues |-> 0, apiErrors |-> 0,
                lastProcessedBlock |-> 0]
  /\ lastProcessedBlock = 0
  /\ lastDbWrite = 1
  /\ polls = [i \in PollIds |-> IdlePoll]
  /\ lastReported = 0
  /\ expectedMissed = 0
  /\ running = TRUE
  /\ \E plan \in FetchPlans : fetch = FetchCall(plan)

NextFetch == FetchAttempt \/ FetchBackoff

SpecFetch == InitFetch /\ [][NextFetch]_vars

\* The capped variant: the authoritative feed's poll of the direct-write server
\* whose backfill clamps its range, with its lookups.
InitCapped ==
  /\ variant = "capped"
  /\ now = 1
  /\ chain = 1
  /\ store = {}
  /\ resp = NoResp
  /\ last = NoOp
  /\ buffer = <<>>
  /\ writeBuffer = <<>>
  /\ lastWrite = 1
  /\ flushed = "due"
  /\ metrics = [missedBlocks |-> 0, nullValues |-> 0, apiErrors |-> 0,
                lastProcessedBlock |-> 0]
  /\ lastProcessedBlock = 0
  /\ lastDbWrite = 1
  /\ polls = [i \in PollIds |-> IdlePoll]
  /\ lastReported = 0
  /\ expectedMissed = 0
  /\ running = TRUE
  /\ fetch = NoFetch

NextCapped ==
  \/ ChainAdvance
  \/ Tick
  \/ \E i \in PollIds : SeiPollResponse(i)
  \/ \E i \in PollIds, h \in 1..MaxHeightCapped, outcome \in {"block", "none", "error"} :
       BackfillLookup(i, h, outcome)

SpecCapped == InitCapped /\ [][NextCapped]_vars

\* The BlockBuffer with its cleanup timer at its period: the polls, the flush
\* and the cleanup of the buffer variant.
InitTimer ==
  /\ variant = "buffer"
  /\ now = 1
  /\ chain = 1
  /\ store = {}
  /\ resp = NoResp
  /\ last = NoOp
  /\ buffer = <<>>
  /\ writeBuffer = <<>>
  /\ lastWrite = 1
  /\ flushed = "due"
  /\ metrics = [missedBlocks |-> 0, nullValues |-> 0, apiErrors |-> 0,
                lastProcessedBlock |-> 0]
  /\ lastProcessedBlock = 0
  /\ lastDbWrite = 1
  /\ polls = [i \in PollIds |-> IdlePoll]
  /\ lastReported = 0
  /\ expectedMissed = 0
  /\ running = TRUE
  /\ fetch = NoFetch

NextTimer ==
  \/ ChainAdvance
  \/ TickTimer
  \/ PollPredictedBuf
  \/ PollSeiBuf
  \/ FlushToDatabase

SpecTimer == InitTimer /\ [][NextTimer]_vars

\* sampleData applied to every height-ordered input of up to MaxSampleRows rows.
InitSample ==
  /\ variant = "direct"
  /\ now = 1
  /\ chain = 1
  /\ \E S \in SUBSET (1..MaxSampleRows) :
       store = {Row(h, blockTime(h), 120, 118) : h \in S}
  /\ resp = NoResp
  /\ last = NoOp
  /\ buffer = <<>>
  /\ writeBuffer = <<>>
  /\ lastWrite = 1
  /\ flushed = "due"
  /\ metrics = [missedBlocks |-> 0, nullValues |-> 0, apiErrors |-> 0,
                lastProcessedBlock |-> 0]
  /\ lastProcessedBlock = 0
  /\ lastDbWrite = 1
  /\ polls = [i \in PollIds |-> IdlePoll]
  /\ lastReported = 0
  /\ expectedMissed = 0
  /\ running = TRUE
  /\ fetch = NoFetch

NextSample == SampleSeries

SpecSample == InitSample /\ [][NextSample]_vars

\* The two polls of the direct-write variant on their timers, with no bound on
\* the clock: each timer keeps firing, so each poll keeps running.
InitThrottle ==
  /\ variant = "direct"
  /\ now = 1
  /\ chain = 1
  /\ store = {}
  /\ resp = NoResp
  /\ last = NoOp
  /\ buffer = <<>>
  /\ writeBuffer = <<>>
  /\ lastWrite = 1
  /\ flushed = "due"
  /\ metrics = [missedBlocks |-> 0, nullValues |-> 0, apiErrors |-> 0,
                lastProcessedBlock |-> 0]
  /\ lastProcessedBlock = 0
  /\ lastDbWrite = 1
  /\ polls = [i \in PollIds |-> IdlePoll]
  /\ lastReported = 0
  /\ expectedMissed = 0
  /\ running = TRUE
  /\ fetch = NoFetch

SeiPolls ==
  \/ \E i \in PollIds : SeiPollResponse(i)
  \/ \E i \in PollIds, h \in Heights, outcome \in {"block", "none", "error"} :
       BackfillLookup(i, h, outcome)

NextThrottle ==
  \/ ChainAdvance
  \/ TickThrottle
  \/ SeiPolls
  \/ \E i \in PollIds : SeiPollError(i)
  \/ PollPredictedDirect
  \/ PollPredictedIncomplete

SpecThrottle ==
  /\ InitThrottle /\ [][NextThrottle]_vars
  /\ WF_vars(TickThrottle)
  /\ WF_vars(SeiPolls)
  /\ WF_vars(PollPredictedDirect)

\* The same program, one variant at a time.
SpecBuffer == Init /\ variant = "buffer" /\ [][Next]_vars
SpecDirect == Init /\ variant = "direct" /\ [][Next]_vars

\* ------------------------------------------------------------------ claims
InBuffer == variant = "buffer"
InDirect == variant = "direct"
Answered1h == InBuffer /\ resp.status = 200 /\ resp.range = "1h"
HeightsIn(series) == {series[i].blockNumber : i \in 1..Len(series)}
IndexOf(series, h) == {i \in 1..Len(series) : series[i].blockNumber = h}
Gap(from, to) == (from + 1)..(to - 1)

\* C1: in every reachable state the table holds at most one row per block
\* height, whatever writes (flush, predicted insert, actual update, backfill
\* placeholder) have run.
C1_OneRowPerHeight ==
  \A r1 \in store : \A r2 \in store : r1.blockNumber = r2.blockNumber => r1 = r2

\* A row that a predicted insert created and an actual update then changed.
C1_Witness ==
  /\ InDirect
  /\ \E r \in store : r.confidence99 # Null /\ r.seiGasPrice # Null
  /\ last.op = "seiDone"

\* C2 (as claimed): a flush overwrites only the fields it provides: a field a
\* row held before the flush is still set after it, so the row keeps the
\* union of the fields observed for its height.
C2_FlushKeepsUnion ==
  [][FlushToDatabase =>
       \A r \in store : \E r2 \in store' :
         /\ r2.blockNumber = r.blockNumber
         /\ r.confidence99 # Null => r2.confidence99 # Null
         /\ r.seiGasPrice # Null => r2.seiGasPrice # Null]_vars

C4_BothValuesReturned ==
  (Answered1h /\ last.op = "both") =>
    \E i \in 1..Len(resp.predictedData) :
      /\ IndexOf(resp.predictedData, last.blockNumber) = {i}
      /\ resp.predictedData[i].confidence99 = last.predicted
      /\ resp.seiGasPriceData[i].confidence99 = last.actual

C6_MissedBlocksExact ==
  (InDirect /\ \A i \in PollIds : polls[i].pc = "idle") =>
    metrics.missedBlocks = expectedMissed

\* C7 (as claimed): a range outside the enumerated set is answered with a
\* client error and no data.
C7_InvalidRangeRejected ==
  (resp.status # 0 /\ timeRanges(resp.range) = Null) =>
    /\ resp.status = 400
    /\ resp.predictedData = <<>>
    /\ resp.seiGasPriceData = <<>>

\* C8 (as claimed): no returned series is longer than the row ceiling.
C8_SeriesWithinCeiling ==
  resp.status = 200 =>
    /\ Len(resp.predictedData) <= QUERY_LIMIT
    /\ Len(resp.seiGasPriceData) <= QUERY_LIMIT

\* The record the last addBlock call was given, as the two series show it.
LastPredictedPoint ==
  [blockNumber |-> last.blockNumber,
   timestamp |-> IF last.op = "predicted" THEN blockTime(last.blockNumber) ELSE now,
   confidence99 |-> IF last.op = "predicted" THEN last.predicted ELSE Null]
LastSeiPoint ==
  [LastPredictedPoint EXCEPT
     !.confidence99 = IF last.op = "predicted" THEN Null ELSE last.actual]

\* C9: a 1h query that follows an addBlock at once (no flush, no tick in
\* between) returns the record addBlock was given, from the buffer.
C9_IngestedRecordReturned ==
  (Answered1h /\ last.op \in {"predicted", "actual", "both"}) =>
    \E i \in 1..Len(resp.predictedData) :
      /\ resp.predictedData[i] = LastPredictedPoint
      /\ resp.seiGasPriceData[i] = LastSeiPoint

C9_Witness ==
  /\ Answered1h
  /\ last.op = "actual"
  /\ last.blockNumber \in DOMAIN writeBuffer
  /\ ~HasRow(store, last.blockNumber)
  /\ last.blockNumber \in HeightsIn(resp.seiGasPriceData)

\* C10 (as claimed): a 1h response holds every height that was ingested within
\* the last hour and is still in the buffer or is a row of the table.
C10_NoReadGap ==
  Answered1h =>
    \A h \in Heights :
      (\/ h \in DOMAIN buffer /\ buffer[h].addedAt >= now - Hour
       \/ \E r \in RowsOf(store, h) : r.timestamp >= now - Hour)
      => h \in HeightsIn(resp.predictedData)

\* C11: no step decreases missedBlocks or apiErrors (nor nullValues).
C11_CountersMonotonic ==
  [][/\ metrics'.missedBlocks >= metrics.missedBlocks
     /\ metrics'.apiErrors >= metrics.apiErrors
     /\ metrics'.nullValues >= metrics.nullValues]_vars

\* Both counters have grown, and a poll that found no gap has run after.
C11_Witness ==
  /\ InDirect
  /\ metrics.missedBlocks > 0
  /\ metrics.apiErrors > 0
  /\ last.op = "seiDone"
  /\ last.blockNumber <= last.from + 1

\* C12: a flush is all-or-nothing.  A step that changes the table of the
\* buffer variant is a flush that wrote every staged entry, and a failed flush
\* leaves the table as it was; requests are served between steps, so a query
\* reads the table before the batch or after it.
C12_FlushAllOrNothing ==
  [][InBuffer =>
       /\ store' # store =>
            /\ FlushToDatabase
            /\ flushed' = "ok"
            /\ \A h \in DOMAIN writeBuffer : BatchRow(writeBuffer[h]) \in store'
       /\ flushed' = "failed" => store' = store]_vars

\* A batch of two rows failed and neither is in the table.
C12_Witness ==
  /\ InBuffer
  /\ flushed = "failed"
  /\ Cardinality(DOMAIN writeBuffer) = 2
  /\ \A h \in DOMAIN writeBuffer : ~HasRow(store, h)

\* C13 (as claimed): no field of a buffered entry goes from set to unset: an
\* entry that stays in the buffer keeps every field it had.
C13_BufferFieldsKept ==
  [][\A h \in DOMAIN buffer :
       h \in DOMAIN buffer' =>
         /\ buffer[h].confidence99 # Null => buffer'[h].confidence99 # Null
         /\ buffer[h].seiGasPrice # Null => buffer'[h].seiGasPrice # Null]_vars

\* C14: while an authoritative poll is still in its backfill, the next
\* authoritative poll can start (as long as the model has an invocation record
\* left for it), and so can a predicted poll (as long as the model's cap on the
\* counters admits its update).
C14_PollsStartDuringBackfill ==
  (InDirect /\ \E i \in PollIds : polls[i].pc = "backfill") =>
    /\ (\E j \in PollIds : polls[j].pc = "idle") =>
         ENABLED (\E j \in PollIds : SeiPollResponse(j))
    /\ CountersOk(updateMetrics(metrics, lastProcessedBlock, chain, 1)) =>
         ENABLED PollPredictedDirect

\* A second authoritative poll started while the first was in its backfill.
C14_Witness ==
  /\ InDirect
  /\ \A i \in PollIds : polls[i].pc = "backfill" /\ polls[i].inflight # {}

\* The lookups in flight, over all running polls.
RECURSIVE InFlight(_)
InFlight(ids) ==
  IF ids = {} THEN 0
  ELSE LET i == CHOOSE x \in ids : TRUE
       IN Cardinality(polls[i].inflight) + InFlight(ids \ {i})

\* C15 (as claimed): at every moment at most MAX_CONCURRENT_BACKFILL backfill
\* lookups are in flight, overlapping polls included.
C15_LookupsWithinCeiling == InFlight(PollIds) <= MAX_CONCURRENT_BACKFILL

\* C16: fetchWithRetry makes at most 3 attempts; it returns the response of the
\* first attempt that succeeds and attempts nothing after it; it has waited
\* 1000 ms after the first failure and 2000 ms after the second, and nothing
\* after the last; when all attempts failed it throws the last error.
C16_FetchWithRetry ==
  /\ fetch.attempts <= 3
  /\ \A k \in 1..Len(fetch.waits) :
       fetch.waits[k] = (IF k = 1 THEN 1000 ELSE 2000)
  /\ fetch.pc \in {"returned", "thrown"} => Len(fetch.waits) = fetch.attempts - 1
  /\ fetch.pc = "returned" =>
       /\ fetch.plan[fetch.attempts] = "ok"
       /\ fetch.response = fetch.attempts
       /\ \A k \in 1..(fetch.attempts - 1) : fetch.plan[k] # "ok"
       /\ ~ENABLED NextFetch
  /\ fetch.pc = "thrown" =>
       /\ fetch.attempts = 3
       /\ \A k \in 1..3 : fetch.plan[k] # "ok"
       /\ fetch.thrown = fetch.plan[3]

\* All three attempts failed, with different errors.
C16_Witness ==
  /\ fetch.pc = "thrown"
  /\ fetch.waits = <<1000, 2000>>
  /\ fetch.plan[1] # fetch.plan[3]

\* C17 (as claimed): a poll whose feed request failed increments apiErrors by
\* one and leaves the buffer, the staged writes and the table as they were.
C17_FailedPollCounted ==
  [][(\/ PollSkippedBuf /\ last'.op = "pollFailed"
      \/ \E i \in PollIds : SeiPollError(i))
     => /\ metrics'.apiErrors = metrics.apiErrors + 1
        /\ UNCHANGED <<store, buffer, writeBuffer>>]_vars

\* C18 (as claimed): a poll whose response lacks the height or the price list
\* increments nullValues by one and leaves the buffer, the staged writes and
\* the table as they were.
C18_IncompleteResponseCounted ==
  [][(\/ PollSkippedBuf /\ last'.op = "pollIncomplete"
      \/ PollPredictedIncomplete /\ metrics'.apiErrors = metrics.apiErrors)
     => /\ metrics'.nullValues = metrics.nullValues + 1
        /\ UNCHANGED <<store, buffer, writeBuffer>>]_vars

\* C19 (as claimed): every answer to a query with a valid range holds the two
\* series, whatever happened inside.
C19_AlwaysTwoSeries ==
  (resp.status # 0 /\ timeRanges(resp.range) # Null) => resp.body = "series"

\* C20 (as claimed): the records staged when the process shuts down have been
\* handed to a final flush: they are in the table when the process has ended.
C20_FinalFlushOnShutdown ==
  [][Shutdown =>
       \A h \in DOMAIN writeBuffer : BatchRow(writeBuffer[h]) \in store']_vars

C22_ParallelSeriesWithMetrics ==
  resp.status = 200 =>
    /\ Len(resp.predictedData) = Len(resp.seiGasPriceData)
    /\ \A i \in 1..Len(resp.predictedData) :
         /\ resp.predictedData[i].blockNumber = resp.seiGasPriceData[i].blockNumber
         /\ resp.predictedData[i].timestamp = resp.seiGasPriceData[i].timestamp
    /\ resp.metrics = <<metrics>>

\* C23 (as claimed): a call of updateMetrics with height h adds h - prev - 1 to
\* missedBlocks when h > prev + 1 and nothing otherwise, where prev is the
\* lastProcessedBlock the previous call left in the metrics.
C23_GapAgainstPreviousCall ==
  [][(PollPredictedDirect \/ (InDirect /\ last'.op = "seiDone")) =>
       LET h == metrics'.lastProcessedBlock
           prev == metrics.lastProcessedBlock
       IN metrics'.missedBlocks =
            metrics.missedBlocks + (IF h > prev + 1 THEN h - prev - 1 ELSE 0)]_vars

\* C24: in the capped variant, when the gap curr - prev exceeds the limit N, the
\* pass looks up only heights among the N closest below curr (the loop starts
\* above curr - N, so it is curr - N + 1 .. curr - 1 that it has looked up when
\* it is done), and the poll still counts the whole gap, clamped heights
\* included, in missedBlocks.
ClampedPass(p) == p.currentBlock - p.fromBlock > BackfillLimit
MostRecent(p) == (p.currentBlock - BackfillLimit)..(p.currentBlock - 1)
HeightsOf(blocks) == {blocks[k] : k \in 1..Len(blocks)}
Pending(p) == p.inflight \cup {p.queue[k] : k \in 1..Len(p.queue)}
Lookups(p) == Pending(p) \cup p.looked
C25_FailedLookupSkipped ==
  [][/\ \A i \in PollIds :
          \A h \in polls[i].inflight :
            LET rest == Pending(polls[i]) \ {h}
            IN /\ BackfillLookup(i, h, "error") =>
                    /\ metrics'.apiErrors = metrics.apiErrors + 1
                    /\ RowsOf(store', h) = RowsOf(store, h)
                    /\ Pending(polls'[i]) = rest
                    /\ rest # {} => polls'[i].pc = "backfill"
               /\ BackfillLookup(i, h, "none") =>
                    /\ metrics'.apiErrors = metrics.apiErrors
                    /\ RowsOf(store', h) = RowsOf(store, h)
                    /\ Pending(polls'[i]) = rest
               /\ BackfillLookup(i, h, "block") =>
                    /\ HasRow(store', h)
                    /\ Pending(polls'[i]) = rest
     /\ last'.op = "seiDone" =>
          last'.looked = HeightsOf(backfillBlocks(last'.from, last'.blockNumber))]_vars
C25_Witness ==
  /\ variant = "capped" /\ last.op = "seiDone" /\ metrics.apiErrors = 1
  /\ \E h1 \in last.looked \ last.found, h2 \in last.found :
       h1 < h2 /\ ~HasRow(store, h1) /\ HasRow(store, h2)

\* C26 (as claimed): once the table holds the placeholder row of height h, no
\* poll issues a backfill lookup for h.
C26_NoLookupAfterPlaceholder ==
  [][\A i \in PollIds, h \in 1..MaxHeightCapped :
       Placeholder(h) \in store =>
         ~(h \in polls'[i].inflight /\ h \notin polls[i].inflight)]_vars

\* C27: a poll of the authoritative feed that reports a height at or below
\* lastProcessedBlock ends in the turn it started in, having issued and looked
\* up nothing (no poll's record changes), inserts no row, and leaves missedBlocks
\* and apiErrors as they were; for any height at or below lastProcessedBlock the
\* backfill range is empty and updateMetrics adds nothing to missedBlocks.
C27_NoGapNoBackfill ==
  [][InDirect =>
     /\ (last'.op = "seiDone" /\ last'.blockNumber <= last'.from) =>
          /\ polls' = polls /\ last'.looked = {}
          /\ {r.blockNumber : r \in store'} = {r.blockNumber : r \in store}
          /\ metrics'.missedBlocks = metrics.missedBlocks
          /\ metrics'.apiErrors = metrics.apiErrors
     /\ \A curr \in 0..lastProcessedBlock, a \in ActPrices :
          /\ backfillBlocks(lastProcessedBlock, curr) = <<>>
          /\ updateMetrics(metrics, lastProcessedBlock, curr, a).missedBlocks =
               metrics.missedBlocks
          /\ updateMetrics(metrics, lastProcessedBlock, curr, a).apiErrors =
               metrics.apiErrors]_vars
C27_Witness ==
  /\ InDirect /\ last.op = "seiDone" /\ last.blockNumber <= last.from
  /\ last.from > 0 /\ last.looked = {}

\* C28 (as claimed): when a predicted write and then an actual write were staged
\* for one height with no flush in between, the staged write of that height holds
\* the predicted value of the first and the actual value of the second.
C28_StagedWritesCoalesce ==
  (InBuffer /\ last.op = "both") =>
    /\ last.blockNumber \in DOMAIN writeBuffer
    /\ writeBuffer[last.blockNumber].confidence99 = last.predicted
    /\ writeBuffer[last.blockNumber].seiGasPrice = last.actual

\* C29: when a 1h request has called it, getRecentBlocks returns, for every
\* window, each buffered entry whose addedAt is at or after now - window, once,
\* and no other, in strictly ascending height order, and the buffer is as it was
\* before the request.
C29_RecentBlocksExact ==
  [][(InBuffer /\ resp'.status = 200 /\ resp'.range = "1h") =>
       /\ \A w \in 0..MaxTime :
            LET recent == getRecentBlocks(w)
            IN /\ {recent[i] : i \in 1..Len(recent)} =
                    {b \in BufferValues : b.addedAt >= now - w}
               /\ \A i \in 1..Len(recent) - 1 :
                    recent[i].blockNumber < recent[i + 1].blockNumber
       /\ buffer' = buffer]_vars
C29_Witness ==
  /\ Answered1h
  /\ Len(getRecentBlocks(RECENT_WINDOW)) = 1
  /\ Len(getRecentBlocks(bufferTimeWindow)) = 2
  /\ HeightsIn(getRecentBlocks(RECENT_WINDOW)) \subseteq HeightsIn(resp.seiGasPriceData)

\* C30: when the cleanup timer fires, cleanBuffer removes exactly the entries
\* added before now - bufferTimeWindow and keeps the others as they are; it
\* leaves the staged writes and the table unchanged, and every height it removes
\* is still staged or already a row; with the timer at its period the buffer
\* never holds an entry added two buffer windows ago or earlier.
C30_EvictExactAndBounded ==
  [][/\ (TickTimer /\ TimerFires(now')) =>
          /\ DOMAIN buffer' =
               {h \in DOMAIN buffer : buffer[h].addedAt >= now' - bufferTimeWindow}
          /\ \A h \in DOMAIN buffer' : buffer'[h] = buffer[h]
          /\ writeBuffer' = writeBuffer /\ store' = store
          /\ \A h \in DOMAIN buffer \ DOMAIN buffer' :
               h \in DOMAIN writeBuffer' \/ HasRow(store', h)
     /\ \A h \in DOMAIN buffer' :
          buffer'[h].addedAt > now' - 2 * bufferTimeWindow]_vars
C30_Witness ==
  /\ InBuffer /\ TimerFires(now) /\ flushed = "due" /\ last = NoOp
  /\ \E h \in DOMAIN buffer : buffer[h].addedAt = now - bufferTimeWindow
  /\ \E r \in store : r.blockNumber \notin DOMAIN buffer

\* C31: for the stride N of the timeframe, each sampled series is exactly the
\* entries at indices 0, N, 2N, .. of the height-ordered series, in that order
\* (the whole series for 1h): it is a function of the rows and the timeframe.
Strided(data, N) == [k \in 1..((Len(data) + N - 1) \div N) |-> data[(k - 1) * N + 1]]
C32_FirstTimestampWins ==
  [][\A r \in store, r2 \in store' :
       (r.timestamp # Null /\ r2.blockNumber = r.blockNumber) =>
         r2.timestamp = r.timestamp]_vars

\* C33 (as claimed): in the direct-write variant a series answered for a window
\* that holds rows is not empty, and fewer rows of the window than one sampling
\* stride lie above the highest height it returns.
C33_SeriesReachesNewest ==
  (InDirect /\ resp.status = 200) =>
    LET inWindow == {r \in store : r.timestamp >= now - WindowOrDefault(resp.range)}
        returned == HeightsIn(resp.predictedData)
    IN inWindow # {} =>
         /\ returned # {}
         /\ Cardinality({r \in inWindow : \A h \in returned : r.blockNumber > h})
              < samplingRates(resp.range)

\* C34 (as claimed): in a 1h response of the buffer variant the heights of each
\* series are strictly ascending, so no height is there twice.
C34_OneEntryPerHeight1h ==
  Answered1h =>
    /\ \A i \in 1..Len(resp.predictedData) - 1 :
         resp.predictedData[i].blockNumber < resp.predictedData[i + 1].blockNumber
    /\ \A i \in 1..Len(resp.seiGasPriceData) - 1 :
         resp.seiGasPriceData[i].blockNumber < resp.seiGasPriceData[i + 1].blockNumber

\* C35 (as claimed): lastProcessedBlock never decreases.
C35_LastProcessedMonotonic ==
  [][lastProcessedBlock' >= lastProcessedBlock]_vars

\* C36 (as claimed): in the direct-write variant, when the predicted poll keeps
\* running, it keeps inserting: again and again a predicted poll finds the write
\* interval elapsed and writes its record.
PredictedWrite == PollPredictedDirect /\ now - lastDbWrite >= DB_WRITE_INTERVAL
C36_PredictedKeepsWriting ==
  []<><<PollPredictedDirect>>_vars => []<><<PredictedWrite>>_vars

\* C37: when an authoritative poll of the direct-write variant ends, the table
\* has a row for the poll's height exactly if it had one, that row differs from
\* the one before in seiGasPrice at most, and, for a poll that had no backfill,
\* every other row is as it was; with no row for the height the table is
\* unchanged.
C37_UpdateOnlyActualColumn ==
  [][(InDirect /\ last'.op = "seiDone") =>
       LET h == last'.blockNumber
       IN /\ HasRow(store', h) <=> HasRow(store, h)
          /\ \A r2 \in RowsOf(store', h) :
               \E r \in RowsOf(store, h) : [r2 EXCEPT !.seiGasPrice = r.seiGasPrice] = r
          /\ last'.looked = {} =>
               /\ {r \in store' : r.blockNumber # h} = {r \in store : r.blockNumber # h}
               /\ ~HasRow(store, h) => store' = store]_vars
C37_Witness ==
  /\ InDirect /\ last.op = "seiDone" /\ last.looked = {}
  /\ \E r \in store :
       /\ r.blockNumber = last.blockNumber
       /\ r.confidence99 # Null /\ r.seiGasPrice # Null
  /\ \E r \in store : r.blockNumber # last.blockNumber

\* C38: when the backfill lookup of a height that already has a row settles,
\* whatever it returns, the row of that height is left as it was.
C38_PlaceholderKeepsRow ==
  [][InDirect =>
       \A i \in PollIds :
         \A h \in polls[i].inflight \ polls'[i].inflight :
           HasRow(store, h) => RowsOf(store', h) = RowsOf(store, h)]_vars
C38_Witness ==
  /\ InDirect /\ last.op = "seiDone"
  /\ \E h \in last.found :
       \E r \in store : r.blockNumber = h /\ r.confidence99 # Null

\* C39: a flush runs in one turn, so an addBlock comes before it or after it.
\* After a flush every record that was staged is a row of the table or is still
\* staged as it was, and the flush stages nothing; lastWrite moves only to now
\* and only with the staged set cleared; a flush of an empty staged set leaves the
\* table, lastWrite and the staged set as they were.  An addBlock leaves its
\* record staged and the table as it was.
C39_FlushLosesNoStagedRecord ==
  [][/\ FlushToDatabase =>
          /\ \A h \in DOMAIN writeBuffer :
               \/ BatchRow(writeBuffer[h]) \in store'
               \/ h \in DOMAIN writeBuffer' /\ writeBuffer'[h] = writeBuffer[h]
          /\ DOMAIN writeBuffer' \subseteq DOMAIN writeBuffer
          /\ lastWrite' # lastWrite => lastWrite' = now /\ writeBuffer' = <<>>
          /\ writeBuffer = <<>> =>
               store' = store /\ lastWrite' = lastWrite /\ writeBuffer' = <<>>
     /\ (InBuffer /\ last'.op \in {"predicted", "actual", "both"}) =>
          /\ last'.blockNumber \in DOMAIN writeBuffer'
          /\ store' = store]_vars
C39_Witness ==
  /\ InBuffer /\ flushed = "ok" /\ last.op = "actual"
  /\ last.blockNumber \in DOMAIN writeBuffer
  /\ \E r \in store : r.blockNumber # last.blockNumber
  /\ ~HasRow(store, last.blockNumber)

\* C40: in a backfill pass over prev .. curr whose range is not clamped, the
\* heights in flight, still queued and already looked up are disjoint and are
\* together prev+1 .. curr-1; a group is at most one chunk, the queue is above
\* everything issued, and lookups are issued only when no lookup of the poll is
\* left in flight; a height is looked up only from being in flight and is not
\* issued again; the pass ends with exactly prev+1 .. curr-1 looked up.
QueueOf(p) == {p.queue[k] : k \in 1..Len(p.queue)}
=============================================================================
